---- MODULE Spec2Model ----
(***************************************************************************)
(* The OAuth token lifecycle of linkedln-commits: OAuthService             *)
(* (src/src/api/oauthService.js), the OAuthToken model                     *)
(* (src/database/models/oauthToken.js) and the OAuthController handlers    *)
(* that drive them (src/src/api/oauthController.js).                       *)
(*                                                                         *)
(* Every handler is an async function, cut at its awaits.  One step is one *)
(* event (a database operation executing, a provider response arriving)    *)
(* together with the synchronous code that runs on it, up to the request   *)
(* of the next await.  A handler's first step is its call, the code before *)
(* its first await and, when that await is a database operation, the       *)
(* operation: the code before it touches nothing but the request.  The     *)
(* update of storeTokens is a step of its own, since the expiries it       *)
(* carries are computed from the clock before it is sent.                  *)
(* Time is a discrete clock.  The specifications of the token lifecycle    *)
(* read one unit as one day and run the server in UTC; SpecClock, which    *)
(* is about the Date arithmetic of storeTokens alone, reads one unit as    *)
(* one hour, the shift of a daylight-saving zone.  The collection is that  *)
(* of one provider, 'linkedin', the only value the schema allows.          *)
(***************************************************************************)
EXTENDS Integers, Sequences, FiniteSets, TLC

\* ---------------------------------------------------------------- bounds
\* The subjects the claims range over; each specification below names the
\* subjects its handlers are called for.
Users == {"u1", "u2"}
Procs == {"p1", "p2"}
AccessTokens == {"a1", "a2"}
RefreshTokens == {"r1", "r2"}
MaxTime == 2
MaxExpiresIn == 2
MaxRefreshExpiresIn == 2
MaxNonce == 2
\* The instant at which the local time of a daylight-saving zone shifts.
ShiftAt == 2
\* The options of the extractor's instance, in units of the clock (for the
\* extractor one unit is one second, the default retryDelay), and how long its
\* clock runs.
maxRequests == 1
windowMs == 2
maxRetries == 2
MaxElapsed == 4

\* The names jobs are started under, 'default' being the default of jobName.
JobNames == {"default", "sync"}

\* How many cron jobs node-cron creates in a run.
MaxJobs == 3

\* ------------------------------------------------------- program constants
\* null / undefined / a missing field
None == "none"
\* a Date field that is null or missing (refresh_expires_at)
NoDate == -1
\* refresh_token_expires_in missing from a payload
NoSeconds == -1
\* req.query.state missing, req.session.oauthState missing
NoState == 0
\* setDate(getDate() + 1): one day, the unit of the clock
OneDay == 1
\* retryDelay = 1000: one second, the unit of the extractor's clock
retryDelay == 1
\* backoffMultiplier = 2
backoffMultiplier == 2
\* error.response missing: no status
NoStatus == 0

\* now      the clock
\* store    the oauthtokens collection
\* proc     the handler each process runs, with its locals
\* sess     req.session of the browser: oauthState, userId; consumed is the set
\*          of states a callback has compared with oauthState and deleted
\* nonces   how many states generateState has returned
\* last     the answer given in the step that led to the state
\* revoked  the subjects whose tokens were revoked and who did not authorize again
\* zone     the time zone of the server's local time, which Date's setters use
\* posture  NODE_ENV, which config.isProduction() and isDevelopment() read
\* requests this.requests of the RateLimiter of one LinkedInExtractor
\* sent     the instants at which that extractor sent a request to the API
VARIABLES now, store, proc, sess, nonces, last, revoked, zone, posture, requests, sent,
          scheduler, cron

vars == <<now, store, proc, sess, nonces, last, revoked, zone, posture, requests, sent,
          scheduler, cron>>

\* ------------------------------------------------------------ data shapes
NoDoc ==
  [user_id |-> None, access_token |-> None, refresh_token |-> None,
   expires_at |-> NoDate, refresh_expires_at |-> NoDate]

NoData ==
  [access_token |-> None, refresh_token |-> None,
   expires_in |-> 0, refresh_token_expires_in |-> NoSeconds]

\* response.data of the token endpoint
Payloads ==
  [access_token : AccessTokens,
   refresh_token : RefreshTokens \cup {None},
   expires_in : 1..MaxExpiresIn,
   refresh_token_expires_in : {NoSeconds} \cup (0..MaxRefreshExpiresIn)]

\* No Error caught: the locals of a handler hold in error the Error that the
\* token endpoint's client threw, when the step records it.
NoError == [name |-> None, message |-> <<>>]

\* No error caught by RetryHandler.execute: lastError as declared.
NoApiError == [code |-> None, status |-> NoStatus, message |-> None]

\* chained says that withAccessToken runs after requireAuth on the route of
\* both, and first counts the requests that requireAuth sent to the token
\* endpoint before it.
\* A process that runs no handler, and the locals of a handler.  doc is
\* tokenDoc as getValidAccessToken read it, data is newTokenData or tokenData,
\* at is the clock storeTokens read, calls counts the requests sent to the
\* token endpoint, list is tokensNeedingRefresh and i the record the loop is at.
Idle ==
  [op |-> "idle", pc |-> "idle", user |-> None, doc |-> NoDoc, data |-> NoData,
   at |-> 0, calls |-> 0, res |-> None, ret |-> None, state |-> NoState,
   list |-> <<>>, i |-> 1, success |-> 0, failed |-> 0, errors |-> <<>>,
   error |-> NoError,
   attempt |-> 0, delay |-> 0, wake |-> 0, invoked |-> 0, lastError |-> NoApiError,
   chained |-> FALSE, first |-> 0]

\* The answer of a handler that ends: what it was called for, its result (for
\* hasValidToken and the middleware, the result of the getValidAccessToken call
\* they wrap), the value it returns or the response it sends, and how many
\* requests it sent to the token endpoint.
\* error.message of what getValidAccessToken throws, by result.  The text of a
\* failed refresh is the provider's error_description or the transport's
\* message: RefreshDenied is a refresh the provider refuses with a description
\* that says the token is expired, RefreshFailed any other failure.
Message(res) ==
  CASE res = "NoToken" -> "No OAuth token found for user"
    [] res = "NoRefreshToken" -> "Access token expired and no refresh token available"
    [] res = "BothExpired"
         -> "Both access and refresh tokens are expired. Re-authentication required."
    [] res = "RefreshDenied" -> "Token refresh failed: the refresh token is expired"
    [] res = "RefreshFailed" -> "Token refresh failed: timeout"
    [] OTHER -> "database error"

\* error.message.includes('expired')
IncludesExpired(msg) ==
  msg \in {"Access token expired and no refresh token available",
           "Both access and refresh tokens are expired. Re-authentication required.",
           "Token refresh failed: the refresh token is expired"}

\* Mutant: a failure of the database is not caught.
hasValidToken_Rethrows(res) ==
  IF res = "ok" THEN "true" ELSE IF res = "StoreFailed" THEN "throws" ELSE "false"

\* OAuthService.hasValidToken: try { await getValidAccessToken } catch
hasValidToken(res) == IF res = "ok" THEN "true" ELSE "false"

\* Mutant: a subject whose token check fails is let through.
requireAuth_Lenient(res) ==
  IF res = "NoUser"
  THEN <<"401", "unauthorized", "Authentication required. Please log in.">>
  ELSE IF res = "UserNotFound" THEN <<"401", "user_not_found", "User not found">>
  ELSE IF res = "LookupFailed"
  THEN <<"500", "auth_check_failed", "Failed to verify authentication", Message(res)>>
  ELSE <<"next">>

\* requireAuth: what it sends, or next(), by the result of the
\* getValidAccessToken call inside hasValidToken (NoUser: no user id given) and,
\* when hasValidToken returned true, of User.findById (UserNotFound: it resolves
\* with null, LookupFailed: it rejects and the catch answers).
requireAuth(res) ==
  IF res = "NoUser"
  THEN <<"401", "unauthorized", "Authentication required. Please log in.">>
  ELSE IF res = "UserNotFound" THEN <<"401", "user_not_found", "User not found">>
  ELSE IF res = "LookupFailed"
  THEN <<"500", "auth_check_failed", "Failed to verify authentication", Message(res)>>
  ELSE IF hasValidToken(res) = "true" THEN <<"next">>
  ELSE <<"401", "token_expired", "Authentication token expired. Please log in again.">>

\* Mutant: the identity is attached whatever hasValidToken returned.
optionalAuth_Trusting(res, userId) ==
  IF res = "NoUser" THEN <<"next", None>> ELSE <<"next", userId>>

\* optionalAuth: always next(), with req.user when hasValidToken returned true
\* and User.findById found the user.
optionalAuth(res, userId) ==
  IF res = "ok" THEN <<"next", userId>> ELSE <<"next", None>>

\* withAccessToken: what it sends, or next() with req.accessToken.
withAccessToken(res, accessToken) ==
  IF res = "NoUser" THEN <<"401", "unauthorized", "User not authenticated">>
  ELSE IF res = "ok" THEN <<"next", accessToken>>
  ELSE IF IncludesExpired(Message(res)) THEN <<"401", "token_expired", Message(res)>>
  ELSE <<"500", "token_retrieval_failed", "Failed to get access token", Message(res)>>

\* OAuthController.refresh: what it sends, less the details of the 500.
refresh(res, accessToken) ==
  IF res = "NoUser" THEN <<"400", "missing_user_id", "User ID not provided">>
  ELSE IF res = "ok" THEN <<"200", "Token refreshed successfully", accessToken>>
  ELSE <<"500", "refresh_failed", "Failed to refresh token">>

\* What the handler on st answers with: for getValidAccessToken the value it
\* returns, for hasValidToken and the middleware what they make of the result
\* of the getValidAccessToken call they wrap.
answer(st) ==
  CASE st.op = "hv" -> hasValidToken(st.res)
    [] st.op = "ra" -> requireAuth(st.res)
    [] st.op = "wa" -> withAccessToken(st.res, st.ret)
    [] st.op = "oa" -> optionalAuth(st.res, st.user)
    [] st.op = "rw" -> requireAuth(st.res)
    [] st.op = "rf" -> refresh(st.res, st.ret)
    [] OTHER -> st.ret

\* error.message of the Error the handler on st caught, as a sequence of its
\* parts.
errorMessage(st) == IF st.error # NoError THEN st.error.message ELSE <<Message(st.res)>>

\* details of the 500 response of callback and of refresh: error.message.
details(st) ==
  IF \/ st.op = "cb" /\ st.res = "callback_failed"
     \/ st.op = "rf" /\ st.res \notin {"ok", "NoUser"}
  THEN errorMessage(st) ELSE <<>>

Report(p, st) ==
  [p |-> p, op |-> st.op, user |-> st.user, res |-> st.res, ret |-> answer(st),
   calls |-> st.calls, success |-> st.success, failed |-> st.failed, errors |-> st.errors,
   error |-> st.error, details |-> details(st),
   invoked |-> st.invoked, lastError |-> st.lastError,
   chained |-> st.chained, first |-> st.first]

NoReport == Report(None, Idle)

\* ------------------------------------------------- OAuthToken model methods
\* Mutant: the access token counts as expired a day early, as needsRefresh does.
isAccessTokenExpired_Eager(doc, t) == t + OneDay >= doc.expires_at

\* oauthTokenSchema.methods.isAccessTokenExpired: new Date() >= this.expires_at
isAccessTokenExpired(doc, t) == t >= doc.expires_at

\* oauthTokenSchema.methods.needsRefresh
needsRefresh(doc, t) == doc.expires_at <= t + OneDay

\* oauthTokenSchema.methods.isRefreshTokenExpired
isRefreshTokenExpired(doc, t) ==
  IF doc.refresh_expires_at = NoDate THEN FALSE ELSE t >= doc.refresh_expires_at

\* Mutant: the query does not ask for a refresh token.
NeedsRefreshQuery_AnyToken(d, t) == d.expires_at <= t + OneDay

\* Mutant: the query selects every record that holds a refresh token.
NeedsRefreshQuery_NoWindow(d, t) == d.refresh_token # None

\* Mutant: the record that expires exactly one day from now is left out.
NeedsRefreshQuery_Strict(d, t) == d.expires_at < t + OneDay /\ d.refresh_token # None

\* oauthTokenSchema.statics.findTokensNeedingRefresh, on the collection s
NeedsRefreshQuery(d, t) == d.expires_at <= t + OneDay /\ d.refresh_token # None

findTokensNeedingRefresh(s, t) == SelectSeq(s, LAMBDA d : NeedsRefreshQuery(d, t))

\* ------------------------------------------------------- the collection
\* The collection is the sequence of its documents in insertion order.
Matches(s, u) == {i \in 1..Len(s) : s[i].user_id = u}

First(S) == CHOOSE i \in S : \A j \in S : i <= j

\* OAuthToken.findOne({ user_id, provider }).select('+access_token +refresh_token')
findOne(s, u) == IF Matches(s, u) = {} THEN NoDoc ELSE s[First(Matches(s, u))]

\* OAuthToken.deleteOne({ user_id, provider })
deleteOne(s, u) ==
  IF Matches(s, u) = {} THEN s
  ELSE LET k == First(Matches(s, u))
       IN [i \in 1..(Len(s) - 1) |-> IF i < k THEN s[i] ELSE s[i + 1]]

\* ------------------------------------------------------------ Date setters
\* The zones of the server: UTC, whose local time never shifts, and two
\* daylight-saving zones whose local time shifts by one unit at ShiftAt,
\* forward in Spring (offset 0, then 1) and back in Autumn (offset 1, then 0).
Zones == {"UTC", "Spring", "Autumn"}

\* The offset of the zone's local time at the instant t.
Offset(t) ==
  CASE zone = "Spring" -> IF t < ShiftAt THEN 0 ELSE 1
    [] zone = "Autumn" -> IF t < ShiftAt THEN 1 ELSE 0
    [] OTHER -> 0

\* LocalTime(t) of ECMAScript: the local time at the instant t.
LocalTime(t) == t + Offset(t)

\* UTC(l) of ECMAScript: the instant of the local time l.  A local time that
\* the shift skips or repeats is read with the offset before the shift.
UTC(l) ==
  CASE zone = "Spring" -> IF l <= ShiftAt THEN l ELSE l - 1
    [] zone = "Autumn" -> IF l <= ShiftAt THEN l - 1 ELSE l
    [] OTHER -> l

\* d.setSeconds(d.getSeconds() + secs) on a Date of instant t: the seconds are
\* added to the local time, and the result is read back as an instant.
setSeconds(t, secs) == UTC(LocalTime(t) + secs)

\* Mutant: the relative lifetime is stored as if it were the absolute expiry.
expiresAt_Relative(data, t) == data.expires_in

\* storeTokens, the synchronous part: the absolute expiries, from the clock.
expiresAt(data, t) == setSeconds(t, data.expires_in)

refreshExpiresAt(data, t) ==
  IF data.refresh_token_expires_in # NoSeconds /\ data.refresh_token_expires_in # 0
  THEN setSeconds(t, data.refresh_token_expires_in)
  ELSE NoDate

\* The update document of storeTokens applied to a document (old = NoDoc on
\* insert).  The update is a $set of the listed fields; a field whose value is
\* undefined (refresh_token missing from the payload) is not part of the $set,
\* so the document keeps what it had.  refresh_expires_at: null is set.
applyUpdate(old, u, data, t) ==
  [user_id |-> u,
   access_token |-> data.access_token,
   refresh_token |->
     IF data.refresh_token = None THEN old.refresh_token ELSE data.refresh_token,
   expires_at |-> expiresAt(data, t),
   refresh_expires_at |-> refreshExpiresAt(data, t)]

\* Mutant: the update inserts a document whether or not one matches.
findOneAndUpdate_Insert(s, u, data, t) == Append(s, applyUpdate(NoDoc, u, data, t))

\* OAuthToken.findOneAndUpdate(filter, update, { upsert: true }): one atomic
\* operation of the database on the document of (user_id, provider).
findOneAndUpdate(s, u, data, t) ==
  IF Matches(s, u) = {} THEN Append(s, applyUpdate(NoDoc, u, data, t))
  ELSE LET k == First(Matches(s, u))
       IN [s EXCEPT ![k] = applyUpdate(s[k], u, data, t)]

\* A session that holds nothing: a new one, or one that was destroyed.
NoSession == [oauthState |-> NoState, userId |-> None, consumed |-> {}]

\* ------------------------------------------------------------ CronScheduler
\* cron is what node-cron holds: the cron jobs cron.schedule created, in order,
\* each with the name its callback logs and its status: scheduled while its
\* timer runs, stopped after stop(), created if it was made with scheduled false.
\* scheduler is the singleton CronScheduler: jobs maps a name to the entry set
\* for it (cronJob is the job's place in cron), isRunning is the flag.

\* jobs has no entry under the name.
NoJob == [cronJob |-> 0, schedule |-> None]

\* The state after the constructor.
NewScheduler == [jobs |-> [n \in JobNames |-> NoJob], isRunning |-> FALSE]

\* The cron expressions callers pass; null takes config.scheduler.schedule.
Schedules == {None, "0 2 * * *", "invalid"}

\* config.scheduler.schedule, CRON_SCHEDULE or its default.
configSchedule == "0 2 * * *"

\* cron.validate(expression)
validate(expression) == expression # "invalid"

\* this.jobs.has(jobName), this.jobs.size
has(s, jobName) == s.jobs[jobName] # NoJob

size(s) == Cardinality({n \in JobNames : has(s, n)})

\* What cron.schedule(cronSchedule, callback, jobOptions) returns.
created(jobName, scheduled) ==
  [name |-> jobName, status |-> IF scheduled THEN "scheduled" ELSE "created"]

\* cronJob.stop()
stop(c, cronJob) == [c EXCEPT ![cronJob].status = "stopped"]

\* The cron jobs of a name whose timer is running.
Active(c, jobName) == {k \in 1..Len(c) : c[k].name = jobName /\ c[k].status = "scheduled"}

\* A method's outcome: the scheduler and node-cron after it, and what it returns.
Outcome(s, c, success, message) ==
  [scheduler |-> s, cron |-> c, success |-> success, message |-> message]

\* stopScheduler(jobName) that never clears the flag.
stopScheduler_KeepsFlag(s, c, jobName) ==
  IF ~has(s, jobName)
  THEN Outcome(s, c, FALSE, "not found")
  ELSE Outcome([s EXCEPT !.jobs[jobName] = NoJob],
               stop(c, s.jobs[jobName].cronJob), TRUE, "stopped successfully")

\* stopScheduler(jobName) on scheduler s and node-cron c.
stopScheduler(s, c, jobName) ==
  IF ~has(s, jobName)
  THEN Outcome(s, c, FALSE, "not found")
  ELSE LET deleted == [s EXCEPT !.jobs[jobName] = NoJob]
       IN  Outcome([deleted EXCEPT !.isRunning = IF size(deleted) = 0 THEN FALSE ELSE @],
                   stop(c, s.jobs[jobName].cronJob), TRUE, "stopped successfully")

\* startScheduler that sets the new entry over an existing one without
\* stopping the job of that entry.
startScheduler_NoStop(s, c, jobName, task, schedule, scheduled) ==
  IF task # "function"
  THEN Outcome(s, c, FALSE, "Task must be a function")
  ELSE LET cronSchedule == IF schedule # None THEN schedule ELSE configSchedule
       IN  IF ~validate(cronSchedule)
           THEN Outcome(s, c, FALSE, "Invalid cron expression")
           ELSE Outcome([s EXCEPT !.jobs[jobName] =
                                     [cronJob |-> Len(c) + 1, schedule |-> cronSchedule],
                                  !.isRunning = TRUE],
                        Append(c, created(jobName, scheduled)),
                        TRUE, "started successfully")

\* startScheduler(jobName, task, schedule, options) on scheduler s and node-cron
\* c; task is typeof task, scheduled is jobOptions.scheduled, true unless
\* options overrides it.
startScheduler(s, c, jobName, task, schedule, scheduled) ==
  IF task # "function"
  THEN Outcome(s, c, FALSE, "Task must be a function")
  ELSE LET before == IF has(s, jobName) THEN stopScheduler(s, c, jobName)
                     ELSE Outcome(s, c, TRUE, None)
           cronSchedule == IF schedule # None THEN schedule ELSE configSchedule
       IN  IF ~validate(cronSchedule)
           THEN Outcome(before.scheduler, before.cron, FALSE, "Invalid cron expression")
           ELSE Outcome([before.scheduler EXCEPT
                           !.jobs[jobName] = [cronJob |-> Len(before.cron) + 1,
                                              schedule |-> cronSchedule],
                           !.isRunning = TRUE],
                        Append(before.cron, created(jobName, scheduled)),
                        TRUE, "started successfully")

\* stopAllSchedulers()
stopAllSchedulers(s, c) ==
  IF size(s) = 0
  THEN Outcome(s, c, TRUE, "No jobs were running")
  ELSE Outcome([jobs |-> [n \in JobNames |-> NoJob], isRunning |-> FALSE],
               [k \in 1..Len(c) |->
                  IF \E n \in JobNames : s.jobs[n].cronJob = k
                  THEN [c[k] EXCEPT !.status = "stopped"] ELSE c[k]],
               TRUE, "All jobs stopped")

\* getSchedulerStatus() for all jobs
getSchedulerStatus(s) ==
  [success |-> TRUE, running |-> s.isRunning, jobCount |-> size(s)]

\* ---------------------------------------------------------------- Init
Init ==
  /\ now = 0
  /\ zone = "UTC"
  /\ posture = "production"
  /\ requests = <<>>
  /\ sent = <<>>
  /\ scheduler = NewScheduler
  /\ cron = <<>>
  /\ store = <<>>
  /\ proc = [p \in Procs |-> Idle]
  /\ sess = NoSession
  /\ nonces = 0
  /\ last = NoReport
  /\ revoked = {}

\* The clock.
Tick ==
  /\ now < MaxTime
  /\ now' = now + 1
  /\ last' = NoReport
  /\ UNCHANGED <<scheduler, cron, zone, posture, requests, sent, store, proc, sess, nonces, revoked>>

Free(p) == proc[p].pc = "idle"

\* The handler on st ends with result r and value v.
Done(st, r, v) == [st EXCEPT !.pc = "done", !.res = r, !.ret = v]

\* Process p goes on as st: a handler that ended answers and frees p.  last is
\* the answer given in the step that led to the state, if that step gave one.
\* requireAuth and optionalAuth, whose hasValidToken returned true, go on to
\* User.findById.
Continue(p, st) ==
  IF st.pc = "done" /\ st.op \in {"ra", "oa", "rw"} /\ st.res = "ok"
  THEN /\ proc' = [proc EXCEPT ![p] = [st EXCEPT !.pc = "find_user"]]
       /\ last' = NoReport
  ELSE IF st.pc = "done"
  THEN /\ proc' = [proc EXCEPT ![p] = Idle]
       /\ last' = Report(p, st)
  ELSE /\ proc' = [proc EXCEPT ![p] = st]
       /\ last' = NoReport

\* ------------------------------------------- OAuthService.getValidAccessToken
\* Mutant: the missing record is not told from an expired one.
getValidAccessToken_NoNullCheck(st, doc, t) ==
  IF ~isAccessTokenExpired(doc, t) THEN Done(st, "ok", doc.access_token)
  ELSE IF doc.refresh_token = None THEN Done(st, "NoRefreshToken", None)
  ELSE IF isRefreshTokenExpired(doc, t) THEN Done(st, "BothExpired", None)
  ELSE [st EXCEPT !.pc = "gv_refresh", !.doc = doc, !.calls = @ + 1]

\* findOne and the code after it, up to the return, the throw or the refresh
\* request.
getValidAccessToken(st, doc, t) ==
  IF doc = NoDoc THEN Done(st, "NoToken", None)
  ELSE IF ~isAccessTokenExpired(doc, t) THEN Done(st, "ok", doc.access_token)
  ELSE IF doc.refresh_token = None THEN Done(st, "NoRefreshToken", None)
  ELSE IF isRefreshTokenExpired(doc, t) THEN Done(st, "BothExpired", None)
  ELSE [st EXCEPT !.pc = "gv_refresh", !.doc = doc, !.calls = @ + 1]

GetValid(p, u) ==
  /\ Free(p)
  /\ Continue(p, getValidAccessToken([Idle EXCEPT !.op = "gv", !.user = u],
                                     findOne(store, u), now))
  /\ UNCHANGED <<scheduler, cron, zone, posture, requests, sent, now, store, sess, nonces, revoked>>

\* refreshAccessToken resolves; storeTokens reads the clock and sends its update.
GvRefreshOk(p, data) ==
  /\ proc[p].pc = "gv_refresh"
  /\ Continue(p, [proc[p] EXCEPT !.pc = "gv_store", !.data = data, !.at = now])
  /\ UNCHANGED <<scheduler, cron, zone, posture, requests, sent, now, store, sess, nonces, revoked>>

\* Mutant: a failed refresh drops the stale record.
GvRefreshFail_Deletes(p) ==
  /\ proc[p].pc = "gv_refresh"
  /\ store' = deleteOne(store, proc[p].user)
  /\ Continue(p, Done(proc[p], "RefreshFailed", None))
  /\ UNCHANGED <<scheduler, cron, zone, posture, requests, sent, now, sess, nonces, revoked>>

\* refreshAccessToken throws (provider error or transport failure).
GvRefreshFail(p) ==
  /\ proc[p].pc = "gv_refresh"
  /\ Continue(p, Done(proc[p], "RefreshFailed", None))
  /\ UNCHANGED <<scheduler, cron, zone, posture, requests, sent, now, store, sess, nonces, revoked>>

\* The update of storeTokens reaches the database; the call returns.
GvStore(p) ==
  /\ proc[p].pc = "gv_store"
  /\ store' = findOneAndUpdate(store, proc[p].user, proc[p].data, proc[p].at)
  /\ Continue(p, Done(proc[p], "ok", proc[p].data.access_token))
  /\ UNCHANGED <<scheduler, cron, zone, posture, requests, sent, now, sess, nonces, revoked>>

\* refreshAccessToken throws: the provider refuses the refresh token with a
\* description that says it is expired.
GvRefreshDenied(p) ==
  /\ proc[p].pc = "gv_refresh"
  /\ Continue(p, Done(proc[p], "RefreshDenied", None))
  /\ UNCHANGED <<scheduler, cron, zone, posture, requests, sent, now, store, sess, nonces, revoked>>

\* storeTokens rejects (the database fails): nothing is written, the call throws.
GvStoreFail(p) ==
  /\ proc[p].pc = "gv_store"
  /\ Continue(p, Done(proc[p], "StoreFailed", None))
  /\ UNCHANGED <<scheduler, cron, zone, posture, requests, sent, now, store, sess, nonces, revoked>>

\* getValidAccessToken called by the wrapper op for subject u: findOne resolves
\* (dbOk) and the call goes on as far as its return, throw or refresh request,
\* or findOne rejects and the call throws.
wrapped(op, u, dbOk) ==
  LET st == [Idle EXCEPT !.op = op, !.user = u] IN
  IF u = None THEN Done(st, "NoUser", None)
  ELSE IF dbOk THEN getValidAccessToken(st, findOne(store, u), now)
  ELSE Done(st, "StoreFailed", None)

\* OAuthService.hasValidToken(u)
HasValidToken(p, u, dbOk) ==
  /\ Free(p)
  /\ Continue(p, wrapped("hv", u, dbOk))
  /\ UNCHANGED <<scheduler, cron, zone, posture, requests, sent, now, store, sess, nonces, revoked>>

\* requireAuth: the subject is the session's, else the X-User-Id header's.
RequireAuth(p, header, dbOk) ==
  /\ Free(p)
  /\ Continue(p, wrapped("ra", IF sess.userId # None THEN sess.userId ELSE header, dbOk))
  /\ UNCHANGED <<scheduler, cron, zone, posture, requests, sent, now, store, sess, nonces, revoked>>

\* withAccessToken: the subject is the session's, else the X-User-Id header's.
WithAccessToken(p, header, dbOk) ==
  /\ Free(p)
  /\ Continue(p, wrapped("wa", IF sess.userId # None THEN sess.userId ELSE header, dbOk))
  /\ UNCHANGED <<scheduler, cron, zone, posture, requests, sent, now, store, sess, nonces, revoked>>

\* optionalAuth: the subject is the session's, else the X-User-Id header's.
OptionalAuth(p, header, dbOk) ==
  /\ Free(p)
  /\ Continue(p, wrapped("oa", IF sess.userId # None THEN sess.userId ELSE header, dbOk))
  /\ UNCHANGED <<scheduler, cron, zone, posture, requests, sent, now, store, sess, nonces, revoked>>

\* User.findById of requireAuth or optionalAuth answers: with the user (ok),
\* with null (UserNotFound), or it rejects (LookupFailed).  The middleware
\* answers in the same step.
\* On the route of requireAuth and withAccessToken (op rw), next() runs
\* withAccessToken, which sends the findOne of its getValidAccessToken call.
FindUser(p, found) ==
  /\ proc[p].pc = "find_user"
  /\ IF proc[p].op = "rw" /\ found = "ok"
     THEN /\ proc' = [proc EXCEPT ![p] = [proc[p] EXCEPT !.op = "wa", !.pc = "wa_find",
                                                          !.res = None, !.ret = None,
                                                          !.chained = TRUE,
                                                          !.first = proc[p].calls]]
          /\ last' = NoReport
     ELSE /\ proc' = [proc EXCEPT ![p] = Idle]
          /\ last' = Report(p, Done(proc[p], found, None))
  /\ UNCHANGED <<scheduler, cron, zone, posture, requests, sent, now, store, sess, nonces, revoked>>

\* GET /api/linkedin/userinfo: requireAuth, then withAccessToken.
UserInfoRoute(p, header) ==
  /\ Free(p)
  /\ Continue(p, wrapped("rw", IF sess.userId # None THEN sess.userId ELSE header, TRUE))
  /\ UNCHANGED <<scheduler, cron, zone, posture, requests, sent, now, store, sess, nonces, revoked>>

\* Mutant: withAccessToken works on the record that requireAuth read.
WithAccessTokenFinds_Stale(p) ==
  /\ proc[p].pc = "wa_find"
  /\ Continue(p, getValidAccessToken(proc[p],
                   IF proc[p].doc # NoDoc THEN proc[p].doc ELSE findOne(store, proc[p].user),
                   now))
  /\ UNCHANGED <<scheduler, cron, zone, posture, requests, sent, now, store, sess, nonces, revoked>>

\* The findOne of withAccessToken's getValidAccessToken call is answered, on
\* the route of both: the call goes on to its return, throw or refresh request.
WithAccessTokenFinds(p) ==
  /\ proc[p].pc = "wa_find"
  /\ Continue(p, getValidAccessToken(proc[p], findOne(store, proc[p].user), now))
  /\ UNCHANGED <<scheduler, cron, zone, posture, requests, sent, now, store, sess, nonces, revoked>>

\* ------------------------------------------- OAuthService.refreshExpiringTokens
\* The loop from record st.i on, up to the next refresh request or the return:
\* a record whose refresh token is expired is counted as failed and skipped.
\* Mutant: the loop does not test the refresh token's expiry.
sweepLoop_NoSkip(st, t) ==
  IF st.i > Len(st.list) THEN Done(st, "ok", None)
  ELSE [st EXCEPT !.pc = "sw_refresh", !.calls = @ + 1]

RECURSIVE sweepLoop(_, _)
sweepLoop(st, t) ==
  IF st.i > Len(st.list) THEN Done(st, "ok", None)
  ELSE IF isRefreshTokenExpired(st.list[st.i], t)
  THEN sweepLoop([st EXCEPT !.failed = @ + 1,
                            !.errors = Append(@, <<st.list[st.i].user_id, "Refresh token expired">>),
                            !.i = @ + 1], t)
  ELSE [st EXCEPT !.pc = "sw_refresh", !.calls = @ + 1]

\* The call, findTokensNeedingRefresh and the loop up to the first request.
Sweep(p) ==
  /\ Free(p)
  /\ Continue(p, sweepLoop([Idle EXCEPT !.op = "sw",
                                        !.list = findTokensNeedingRefresh(store, now)], now))
  /\ UNCHANGED <<scheduler, cron, zone, posture, requests, sent, now, store, sess, nonces, revoked>>

SwRefreshOk(p, data) ==
  /\ proc[p].pc = "sw_refresh"
  /\ Continue(p, [proc[p] EXCEPT !.pc = "sw_store", !.data = data, !.at = now])
  /\ UNCHANGED <<scheduler, cron, zone, posture, requests, sent, now, store, sess, nonces, revoked>>

\* Mutant: a failed refresh ends the sweep.
SwRefreshFail_Aborts(p) ==
  /\ proc[p].pc = "sw_refresh"
  /\ Continue(p, Done([proc[p] EXCEPT
         !.failed = @ + 1,
         !.errors = Append(@, <<proc[p].list[proc[p].i].user_id, "Token refresh failed">>),
         !.i = @ + 1], "ok", None))
  /\ UNCHANGED <<scheduler, cron, zone, posture, requests, sent, now, store, sess, nonces, revoked>>

\* refreshAccessToken throws: the inner catch counts the record as failed.
SwRefreshFail(p) ==
  /\ proc[p].pc = "sw_refresh"
  /\ Continue(p, sweepLoop([proc[p] EXCEPT
         !.failed = @ + 1,
         !.errors = Append(@, <<proc[p].list[proc[p].i].user_id, "Token refresh failed">>),
         !.i = @ + 1], now))
  /\ UNCHANGED <<scheduler, cron, zone, posture, requests, sent, now, store, sess, nonces, revoked>>

SwStore(p) ==
  /\ proc[p].pc = "sw_store"
  /\ store' = findOneAndUpdate(store, proc[p].list[proc[p].i].user_id, proc[p].data, proc[p].at)
  /\ Continue(p, sweepLoop([proc[p] EXCEPT !.success = @ + 1, !.data = NoData, !.at = 0,
                                           !.i = @ + 1], now))
  /\ UNCHANGED <<scheduler, cron, zone, posture, requests, sent, now, sess, nonces, revoked>>

\* OAuthToken.findTokensNeedingRefresh rejects (the database fails): the outer
\* catch of refreshExpiringTokens throws 'Failed to refresh expiring tokens'.
SweepQueryFail(p) ==
  /\ Free(p)
  /\ Continue(p, Done([Idle EXCEPT !.op = "sw"], "SweepFailed", None))
  /\ UNCHANGED <<scheduler, cron, zone, posture, requests, sent, now, store, sess, nonces, revoked>>

\* Mutant: the inner catch counts the failure and pushes no entry.
SwStoreFail_NoEntry(p) ==
  /\ proc[p].pc = "sw_store"
  /\ Continue(p, sweepLoop([proc[p] EXCEPT
         !.failed = @ + 1, !.data = NoData, !.at = 0, !.i = @ + 1], now))
  /\ UNCHANGED <<scheduler, cron, zone, posture, requests, sent, now, store, sess, nonces, revoked>>

\* storeTokens rejects in the loop (the database fails): nothing is written and
\* the inner catch counts the record as failed.
SwStoreFail(p) ==
  /\ proc[p].pc = "sw_store"
  /\ Continue(p, sweepLoop([proc[p] EXCEPT
         !.failed = @ + 1,
         !.errors = Append(@, <<proc[p].list[proc[p].i].user_id, "Store failed">>),
         !.data = NoData, !.at = 0, !.i = @ + 1], now))
  /\ UNCHANGED <<scheduler, cron, zone, posture, requests, sent, now, store, sess, nonces, revoked>>

\* ------------------------------------------------ OAuthService.revokeTokens
revokeTokens(s, u) == deleteOne(s, u)

\* Mutant: revoking fails when the subject has no record.
Logout_Strict(p, bodyUser) ==
  /\ Free(p)
  /\ LET userId == IF sess.userId # None THEN sess.userId ELSE bodyUser IN
     IF userId = None
     THEN /\ Continue(p, Done([Idle EXCEPT !.op = "lo"], "missing_user_id", None))
          /\ UNCHANGED <<scheduler, cron, zone, posture, requests, sent, store, sess, revoked>>
     ELSE IF findOne(store, userId) = NoDoc
     THEN /\ Continue(p, Done([Idle EXCEPT !.op = "lo", !.user = userId], "logout_failed", None))
          /\ UNCHANGED <<scheduler, cron, zone, posture, requests, sent, store, sess, revoked>>
     ELSE /\ store' = revokeTokens(store, userId)
          /\ sess' = NoSession
          /\ revoked' = revoked \cup {userId}
          /\ Continue(p, Done([Idle EXCEPT !.op = "lo", !.user = userId], "ok", None))
  /\ UNCHANGED <<scheduler, cron, zone, posture, requests, sent, now, nonces>>

\* OAuthController.logout: the subject is the session's, else the body's;
\* revokeTokens deletes its record, then the session is destroyed.
Logout(p, bodyUser) ==
  /\ Free(p)
  /\ LET userId == IF sess.userId # None THEN sess.userId ELSE bodyUser IN
     IF userId = None
     THEN /\ Continue(p, Done([Idle EXCEPT !.op = "lo"], "missing_user_id", None))
          /\ UNCHANGED <<scheduler, cron, zone, posture, requests, sent, store, sess, revoked>>
     ELSE /\ store' = revokeTokens(store, userId)
          /\ sess' = NoSession
          /\ revoked' = revoked \cup {userId}
          /\ Continue(p, Done([Idle EXCEPT !.op = "lo", !.user = userId], "ok", None))
  /\ UNCHANGED <<scheduler, cron, zone, posture, requests, sent, now, nonces>>

\* ------------------------------------------------ OAuthController.authorize
\* generateState: 32 random bytes, a value no earlier call returned.
generateState(n) == n + 1

Authorize ==
  /\ nonces < MaxNonce
  /\ nonces' = nonces + 1
  /\ sess' = [sess EXCEPT !.oauthState = generateState(nonces)]
  /\ last' = NoReport
  /\ UNCHANGED <<scheduler, cron, zone, posture, requests, sent, now, store, proc, revoked>>

\* ------------------------------------------------- OAuthController.callback
\* Mutant: every denial is reported as the member's cancellation.
callbackChecks_Cancelled(st, code, state, error, expected) ==
  IF error # None THEN Done(st, "denied", "userCancelled")
  ELSE IF code = None THEN Done(st, "missing_code", None)
  ELSE IF state = NoState THEN Done(st, "missing_state", None)
  ELSE IF expected # NoState /\ state # expected THEN Done(st, "invalid_state", None)
  ELSE [st EXCEPT !.pc = "cb_exchange", !.state = state, !.calls = @ + 1]

\* The synchronous part: the error, code and state checks, the comparison with
\* the session's state, and the request of the code exchange.
callbackChecks(st, code, state, error, expected) ==
  IF error # None
  THEN Done(st, "denied", IF error = "user_cancelled_authorize" THEN "userCancelled" ELSE None)
  ELSE IF code = None THEN Done(st, "missing_code", None)
  ELSE IF state = NoState THEN Done(st, "missing_state", None)
  ELSE IF expected # NoState /\ state # expected THEN Done(st, "invalid_state", None)
  ELSE [st EXCEPT !.pc = "cb_exchange", !.state = state, !.calls = @ + 1]

Callback(p, code, state, error) ==
  /\ Free(p)
  /\ LET st == callbackChecks([Idle EXCEPT !.op = "cb"], code, state, error, sess.oauthState) IN
       /\ Continue(p, st)
       /\ sess' = IF st.pc = "cb_exchange" /\ sess.oauthState # NoState
                THEN [sess EXCEPT !.oauthState = NoState, !.consumed = @ \cup {state}]
                ELSE sess
  /\ UNCHANGED <<scheduler, cron, zone, posture, requests, sent, now, store, nonces, revoked>>

\* exchangeCodeForToken resolves; getUserInfo is requested.
CbExchangeOk(p, data) ==
  /\ proc[p].pc = "cb_exchange"
  /\ Continue(p, [proc[p] EXCEPT !.pc = "cb_userinfo", !.data = data])
  /\ UNCHANGED <<scheduler, cron, zone, posture, requests, sent, now, store, sess, nonces, revoked>>

\* exchangeCodeForToken or getUserInfo throws: the catch answers callback_failed.
CbFail(p) ==
  /\ proc[p].pc \in {"cb_exchange", "cb_userinfo"}
  /\ Continue(p, Done(proc[p], "callback_failed", None))
  /\ UNCHANGED <<scheduler, cron, zone, posture, requests, sent, now, store, sess, nonces, revoked>>

\* Mutant: the session gets the user before the tokens are stored.
CbUserInfoOk_SessionFirst(p, sub) ==
  /\ proc[p].pc = "cb_userinfo"
  /\ Continue(p, [proc[p] EXCEPT !.pc = "cb_store", !.user = sub, !.at = now])
  /\ sess' = [sess EXCEPT !.userId = sub]
  /\ UNCHANGED <<scheduler, cron, zone, posture, requests, sent, now, store, nonces, revoked>>

\* getUserInfo resolves with the member's sub; the user of that sub is found or
\* created; storeTokens reads the clock and sends its update.
CbUserInfoOk(p, sub) ==
  /\ proc[p].pc = "cb_userinfo"
  /\ Continue(p, [proc[p] EXCEPT !.pc = "cb_store", !.user = sub, !.at = now])
  /\ UNCHANGED <<scheduler, cron, zone, posture, requests, sent, now, store, sess, nonces, revoked>>

\* The update of storeTokens reaches the database; the session gets the user.
CbStore(p) ==
  /\ proc[p].pc = "cb_store"
  /\ store' = findOneAndUpdate(store, proc[p].user, proc[p].data, proc[p].at)
  /\ sess' = [sess EXCEPT !.userId = proc[p].user]
  /\ revoked' = revoked \ {proc[p].user}
  /\ Continue(p, Done(proc[p], "success", None))
  /\ UNCHANGED <<scheduler, cron, zone, posture, requests, sent, now, nonces>>

\* storeTokens rejects (the database fails): nothing is written, the session
\* is not touched, and the catch answers callback_failed.
CbStoreFail(p) ==
  /\ proc[p].pc = "cb_store"
  /\ Continue(p, Done(proc[p], "callback_failed", None))
  /\ UNCHANGED <<scheduler, cron, zone, posture, requests, sent, now, store, sess, nonces, revoked>>

\* ------------------------------------------- the token endpoint's client
\* What the catch of exchangeCodeForToken and refreshAccessToken gets: an error
\* with a response (the provider answered with an error: response.data holds
\* error and, maybe, error_description), or an error without one (the
\* transport failed: the error holds a message).
ProviderErrors ==
  [kind : {"response"}, error : {"invalid_grant", "invalid_request"},
   error_description : {None, "The token used in the request has expired"},
   message : {None}]

TransportFailures ==
  [kind : {"transport"}, error : {None}, error_description : {None},
   message : {"connect ECONNREFUSED", "socket hang up"}]

TokenFailures == ProviderErrors \cup TransportFailures

\* The catch of exchangeCodeForToken (prefix 'Token exchange failed') and of
\* refreshAccessToken (prefix 'Token refresh failed'): the Error it throws.
tokenError(prefix, f) ==
  [name |-> "Error",
   message |-> <<prefix,
                 IF f.kind = "response"
                 THEN IF f.error_description # None THEN f.error_description ELSE f.error
                 ELSE f.message>>]

\* Mutant: a failed exchange is sent again.
CbExchangeThrows_Retries(p, f) ==
  /\ proc[p].pc = "cb_exchange"
  /\ IF proc[p].calls < 2
     THEN Continue(p, [proc[p] EXCEPT !.calls = @ + 1])
     ELSE Continue(p, Done([proc[p] EXCEPT !.error = tokenError("Token exchange failed", f)],
                           "callback_failed", None))
  /\ UNCHANGED <<scheduler, cron, zone, posture, requests, sent, now, store, sess, nonces, revoked>>

\* exchangeCodeForToken throws on the failure f; callback's catch answers.
CbExchangeThrows(p, f) ==
  /\ proc[p].pc = "cb_exchange"
  /\ Continue(p, Done([proc[p] EXCEPT !.error = tokenError("Token exchange failed", f)],
                      "callback_failed", None))
  /\ UNCHANGED <<scheduler, cron, zone, posture, requests, sent, now, store, sess, nonces, revoked>>

\* refreshAccessToken throws on the failure f; getValidAccessToken lets it pass.
GvRefreshThrows(p, f) ==
  /\ proc[p].pc = "gv_refresh"
  /\ Continue(p, Done([proc[p] EXCEPT !.error = tokenError("Token refresh failed", f)],
                      "RefreshFailed", None))
  /\ UNCHANGED <<scheduler, cron, zone, posture, requests, sent, now, store, sess, nonces, revoked>>

\* OAuthController.refresh: the subject is the session's, else the body's.
Refresh(p, bodyUser) ==
  /\ Free(p)
  /\ Continue(p, wrapped("rf", IF sess.userId # None THEN sess.userId ELSE bodyUser, TRUE))
  /\ UNCHANGED <<scheduler, cron, zone, posture, requests, sent, now, store, sess, nonces, revoked>>

\* ------------------------------------------------- extractor: RateLimiter
\* this.requests.filter(time => now - time < this.windowMs)
filterRequests(reqs, t) == SelectSeq(reqs, LAMBDA time : t - time < windowMs)

\* windowMs - (now - oldestRequest), of a list that is not empty
waitTime(reqs, t) == windowMs - (t - reqs[1])

\* RateLimiter.checkLimit, the test: the caller has to wait.  On an empty list
\* oldestRequest is undefined and waitTime NaN, which is not > 0.
mustWait(reqs, t) ==
  /\ Len(filterRequests(reqs, t)) >= maxRequests
  /\ filterRequests(reqs, t) # <<>>
  /\ waitTime(filterRequests(reqs, t), t) > 0

\* requestFn is invoked: a request leaves for the API at instant t.  sent keeps
\* the instants of the window that ends at t.
send(log, t) == Append(SelectSeq(log, LAMBDA time : t - time < windowMs), t)

\* checkLimit on process p, from its first line: the list is filtered; the
\* caller waits for the oldest request to leave the window, or is admitted:
\* now is pushed, checkLimit resolves, and _makeRequest goes on to
\* RetryHandler.execute, whose first iteration invokes requestFn.
checkLimit(p, st) ==
  IF mustWait(requests, now)
  THEN /\ requests' = filterRequests(requests, now)
       /\ sent' = sent
       /\ Continue(p, [st EXCEPT !.pc = "rl_wait",
                                 !.wake = now + waitTime(filterRequests(requests, now), now)])
  ELSE /\ requests' = Append(filterRequests(requests, now), now)
       /\ sent' = send(sent, now)
       /\ Continue(p, [st EXCEPT !.pc = "rt_fn", !.attempt = 0, !.delay = retryDelay,
                                 !.invoked = 1])

\* LinkedInExtractor._makeRequest(requestFn)
MakeRequest(p) ==
  /\ Free(p)
  /\ checkLimit(p, [Idle EXCEPT !.op = "mr"])
  /\ UNCHANGED <<scheduler, cron, zone, posture, now, store, sess, nonces, revoked>>

\* The timer of checkLimit fires, at its instant or later: return this.checkLimit()
LimiterWake(p) ==
  /\ proc[p].pc = "rl_wait"
  /\ now >= proc[p].wake
  /\ checkLimit(p, proc[p])
  /\ UNCHANGED <<scheduler, cron, zone, posture, now, store, sess, nonces, revoked>>

\* ------------------------------------------------- extractor: RetryHandler
\* The errors requestFn throws: a network error with a code, a network error
\* whose message names the code, a response of status 503, one of status 404.
ApiErrors ==
  {[code |-> "ETIMEDOUT", status |-> NoStatus, message |-> "timeout of 5000ms exceeded"],
   [code |-> None, status |-> NoStatus, message |-> "read ECONNRESET"],
   [code |-> None, status |-> 503, message |-> "Request failed with status code 503"],
   [code |-> None, status |-> 404, message |-> "Request failed with status code 404"]}

retryableErrors == {"ECONNRESET", "ETIMEDOUT", "ENOTFOUND"}

\* error.message.includes(code), for the messages of ApiErrors
includes(message, code) == <<message, code>> \in {<<"read ECONNRESET", "ECONNRESET">>}

\* Mutant: every error with a response is taken for a server error.
isRetryable_AnyResponse(error) ==
  \/ \E code \in retryableErrors : error.code = code \/ includes(error.message, code)
  \/ error.status # NoStatus

\* isNetworkError || isServerError
isRetryable(error) ==
  \/ \E code \in retryableErrors : error.code = code \/ includes(error.message, code)
  \/ error.status # NoStatus /\ error.status >= 500

\* requestFn resolves with result: execute returns it.
FnOk(p, result) ==
  /\ proc[p].pc = "rt_fn"
  /\ Continue(p, Done(proc[p], "ok", result))
  /\ UNCHANGED <<scheduler, cron, zone, posture, requests, sent, now, store, sess, nonces, revoked>>

\* Mutant: the loop allows one more iteration.
FnFail_OneMore(p, error) ==
  /\ proc[p].pc = "rt_fn"
  /\ LET st == [proc[p] EXCEPT !.lastError = error] IN
     IF st.attempt = maxRetries + 1 \/ ~isRetryable(error)
     THEN Continue(p, Done(st, "failed", None))
     ELSE Continue(p, [st EXCEPT !.pc = "rt_wait", !.wake = now + st.delay,
                                 !.delay = @ * backoffMultiplier])
  /\ UNCHANGED <<scheduler, cron, zone, posture, requests, sent, now, store, sess, nonces, revoked>>

\* Mutant: the delay is not multiplied.
FnFail_ConstantDelay(p, error) ==
  /\ proc[p].pc = "rt_fn"
  /\ LET st == [proc[p] EXCEPT !.lastError = error] IN
     IF st.attempt = maxRetries \/ ~isRetryable(error)
     THEN Continue(p, Done(st, "failed", None))
     ELSE Continue(p, [st EXCEPT !.pc = "rt_wait", !.wake = now + st.delay])
  /\ UNCHANGED <<scheduler, cron, zone, posture, requests, sent, now, store, sess, nonces, revoked>>

\* requestFn throws error: the catch of execute keeps it in lastError, and
\* throws it on the last attempt or when it is not retryable; else it sets the
\* timer of the backoff and multiplies the delay.
FnFail(p, error) ==
  /\ proc[p].pc = "rt_fn"
  /\ LET st == [proc[p] EXCEPT !.lastError = error] IN
     IF st.attempt = maxRetries \/ ~isRetryable(error)
     THEN Continue(p, Done(st, "failed", None))
     ELSE Continue(p, [st EXCEPT !.pc = "rt_wait", !.wake = now + st.delay,
                                 !.delay = @ * backoffMultiplier])
  /\ UNCHANGED <<scheduler, cron, zone, posture, requests, sent, now, store, sess, nonces, revoked>>

\* The timer of the backoff fires, at its instant or later: the next iteration
\* invokes requestFn, with no word to the rate limiter.
RetryWake(p) ==
  /\ proc[p].pc = "rt_wait"
  /\ now >= proc[p].wake
  /\ sent' = send(sent, now)
  /\ Continue(p, [proc[p] EXCEPT !.pc = "rt_fn", !.attempt = @ + 1, !.invoked = @ + 1])
  /\ UNCHANGED <<scheduler, cron, zone, posture, requests, now, store, sess, nonces, revoked>>

\* The extractor's clock.
Elapse ==
  /\ now < MaxElapsed
  /\ now' = now + 1
  /\ last' = NoReport
  /\ UNCHANGED <<scheduler, cron, zone, posture, requests, sent, store, proc, sess, nonces, revoked>>

\* ------------------------------------------------- CronScheduler's methods
\* A method of the scheduler returned: last holds the method, the job name and
\* the status object.
Returned(method, jobName, o) ==
  /\ scheduler' = o.scheduler
  /\ cron' = o.cron
  /\ last' = Report(None, Done([Idle EXCEPT !.op = method, !.user = jobName],
                               IF o.success THEN "ok" ELSE "failed",
                               [success |-> o.success, message |-> o.message]))
  /\ UNCHANGED <<zone, posture, requests, sent, now, store, proc, sess, nonces, revoked>>

StartScheduler(jobName, task, schedule, scheduled) ==
  /\ Len(cron) < MaxJobs
  /\ Returned("startScheduler", jobName,
              startScheduler(scheduler, cron, jobName, task, schedule, scheduled))

StopScheduler(jobName) ==
  Returned("stopScheduler", jobName, stopScheduler(scheduler, cron, jobName))

StopAllSchedulers ==
  Returned("stopAllSchedulers", None, stopAllSchedulers(scheduler, cron))

GetSchedulerStatus ==
  /\ last' = Report(None, Done([Idle EXCEPT !.op = "getSchedulerStatus"], "ok",
                               getSchedulerStatus(scheduler)))
  /\ UNCHANGED <<scheduler, cron, zone, posture, requests, sent, now, store, proc, sess,
                 nonces, revoked>>

\* ------------------------------------------------------------------ Next
\* The steps of getValidAccessToken and of refreshExpiringTokens on process p,
\* for the subjects of U, the provider answering with the payloads of D.
Refreshes(p, U, D) ==
  \/ \E u \in U : GetValid(p, u)
  \/ \E data \in D : GvRefreshOk(p, data)
  \/ GvRefreshFail(p)
  \/ GvStore(p)
  \/ Sweep(p)
  \/ \E data \in D : SwRefreshOk(p, data)
  \/ SwRefreshFail(p)
  \/ SwStore(p)

\* The steps of the controller's logout and callback on process p.
Controllers(p, U, D) ==
  \/ \E u \in U \cup {None} : Logout(p, u)
  \/ \E code \in {None, "code"}, state \in 0..MaxNonce,
        error \in {None, "user_cancelled_authorize", "access_denied"} :
       Callback(p, code, state, error)
  \/ \E data \in D : CbExchangeOk(p, data)
  \/ CbFail(p)
  \/ \E sub \in U : CbUserInfoOk(p, sub)
  \/ CbStore(p)

Handlers(P, U, D) == \E p \in P : Refreshes(p, U, D) \/ Controllers(p, U, D)

\* One handler at a time, for one subject, with every payload, in a session
\* that never asked for authorization.
Next == Tick \/ Handlers({"p1"}, {"u1"}, Payloads)

Spec == Init /\ [][Next]_vars

\* The provider issues the token pairs a1/r1 and a2/r2, or an access token with
\* no refresh token, with one lifetime and no refresh expiry.
PairedPayloads ==
  {d \in Payloads : /\ d.expires_in = 1 /\ d.refresh_token_expires_in = NoSeconds
                    /\ <<d.access_token, d.refresh_token>> \in
                         {<<"a1", "r1">>, <<"a2", "r2">>, <<"a1", None>>, <<"a2", None>>}}

\* Two handlers at a time, for one subject.
NextConc == Tick \/ Handlers(Procs, {"u1"}, PairedPayloads)

SpecConc == Init /\ [][NextConc]_vars

\* One handler at a time in a session that asks for authorization.
NextAuth == Tick \/ Authorize \/ Handlers({"p1"}, {"u1"}, PairedPayloads)

SpecAuth == Init /\ [][NextAuth]_vars

\* Concurrent refreshes alone: the record of u1 is as a callback stored it at
\* time 0, and the processes run getValidAccessToken and sweeps, nothing else.
InitStored ==
  /\ now = 0
  /\ zone = "UTC"
  /\ posture = "production"
  /\ requests = <<>>
  /\ sent = <<>>
  /\ scheduler = NewScheduler
  /\ cron = <<>>
  /\ \E d \in PairedPayloads : store = findOneAndUpdate(<<>>, "u1", d, 0)
  /\ proc = [p \in Procs |-> Idle]
  /\ sess = NoSession
  /\ nonces = 0
  /\ last = NoReport
  /\ revoked = {}

NextRefresh == Tick \/ \E p \in Procs : Refreshes(p, {"u1"}, PairedPayloads)

SpecRefresh == InitStored /\ [][NextRefresh]_vars

\* The payloads of the sweep's specification: the token pairs of
\* PairedPayloads, with every lifetime, and a refresh token that expires after
\* a day or never.
SweepPayloads ==
  {d \in Payloads : /\ d.refresh_token_expires_in \in {NoSeconds, OneDay}
                    /\ <<d.access_token, d.refresh_token>> \in
                         {<<"a1", "r1">>, <<"a2", "r2">>, <<"a1", None>>, <<"a2", None>>}}

\* The sweep alone, over two subjects: the records of u1 and u2 are as callbacks
\* stored them at time 0, and one process runs sweeps, whose requests to the
\* provider and to the database may fail.
InitSweep ==
  /\ now = 0
  /\ zone = "UTC"
  /\ posture = "production"
  /\ requests = <<>>
  /\ sent = <<>>
  /\ scheduler = NewScheduler
  /\ cron = <<>>
  /\ \E d, e \in SweepPayloads :
       store = findOneAndUpdate(findOneAndUpdate(<<>>, "u1", d, 0), "u2", e, 0)
  /\ proc = [p \in Procs |-> Idle]
  /\ sess = NoSession
  /\ nonces = 0
  /\ last = NoReport
  /\ revoked = {}

NextSweep ==
  \/ Tick
  \/ Sweep("p1")
  \/ SweepQueryFail("p1")
  \/ \E data \in SweepPayloads : SwRefreshOk("p1", data)
  \/ SwRefreshFail("p1")
  \/ SwStore("p1")
  \/ SwStoreFail("p1")

SpecSweep == InitSweep /\ [][NextSweep]_vars

\* storeTokens alone, on a server in any zone: callbacks store the tokens of
\* u1 while the clock runs over the shift of the zone's local time.
InitClock ==
  /\ now = 0
  /\ zone \in Zones
  /\ posture = "production"
  /\ requests = <<>>
  /\ sent = <<>>
  /\ scheduler = NewScheduler
  /\ cron = <<>>
  /\ store = <<>>
  /\ proc = [p \in Procs |-> Idle]
  /\ sess = NoSession
  /\ nonces = 0
  /\ last = NoReport
  /\ revoked = {}

NextClock ==
  \/ Tick
  \/ \E state \in 1..MaxNonce : Callback("p1", "code", state, None)
  \/ \E data \in Payloads : CbExchangeOk("p1", data)
  \/ CbFail("p1")
  \/ CbUserInfoOk("p1", "u1")
  \/ CbStore("p1")

SpecClock == InitClock /\ [][NextClock]_vars

\* hasValidToken and the middleware, one request at a time: u1 has no record,
\* or the record a callback stored at time 0; the provider and the database
\* may fail.
InitGate ==
  /\ now = 0
  /\ zone = "UTC"
  /\ posture = "production"
  /\ requests = <<>>
  /\ sent = <<>>
  /\ scheduler = NewScheduler
  /\ cron = <<>>
  /\ \/ store = <<>>
     \/ \E d \in Payloads : store = findOneAndUpdate(<<>>, "u1", d, 0)
  /\ proc = [p \in Procs |-> Idle]
  /\ sess = NoSession
  /\ nonces = 0
  /\ last = NoReport
  /\ revoked = {}

NextGate ==
  \/ Tick
  \/ \E dbOk \in BOOLEAN : HasValidToken("p1", "u1", dbOk)
  \/ \E header \in {None, "u1"}, dbOk \in BOOLEAN : RequireAuth("p1", header, dbOk)
  \/ \E header \in {None, "u1"}, dbOk \in BOOLEAN : WithAccessToken("p1", header, dbOk)
  \/ \E header \in {None, "u1"}, dbOk \in BOOLEAN : OptionalAuth("p1", header, dbOk)
  \/ \E found \in {"ok", "UserNotFound", "LookupFailed"} : FindUser("p1", found)
  \/ \E data \in Payloads : GvRefreshOk("p1", data)
  \/ GvRefreshFail("p1")
  \/ GvRefreshDenied("p1")
  \/ GvStore("p1")
  \/ GvStoreFail("p1")

SpecGate == InitGate /\ [][NextGate]_vars

\* The callback and the refresh endpoint, one request at a time, in either
\* posture, for one member: every step of the callback may fail, and the token
\* endpoint fails with provider errors and transport failures.
InitCallback ==
  /\ now = 0
  /\ zone = "UTC"
  /\ posture \in {"production", "development"}
  /\ requests = <<>>
  /\ sent = <<>>
  /\ scheduler = NewScheduler
  /\ cron = <<>>
  /\ store = <<>>
  /\ proc = [p \in Procs |-> Idle]
  /\ sess = NoSession
  /\ nonces = 0
  /\ last = NoReport
  /\ revoked = {}

NextCallback ==
  \/ Tick
  \/ Authorize
  \/ \E code \in {None, "code"}, state \in 0..MaxNonce,
        error \in {None, "user_cancelled_authorize", "access_denied"} :
       Callback("p1", code, state, error)
  \/ \E data \in PairedPayloads : CbExchangeOk("p1", data)
  \/ \E f \in TokenFailures : CbExchangeThrows("p1", f)
  \/ CbFail("p1")
  \/ CbUserInfoOk("p1", "u1")
  \/ CbStore("p1")
  \/ CbStoreFail("p1")
  \/ \E u \in {None, "u1"} : Refresh("p1", u)
  \/ \E data \in PairedPayloads : GvRefreshOk("p1", data)
  \/ \E f \in TokenFailures : GvRefreshThrows("p1", f)
  \/ GvStore("p1")
  \/ GvStoreFail("p1")

SpecCallback == InitCallback /\ [][NextCallback]_vars

\* The same, with what the scheduling gives: the clock advances and an update
\* sent to the database is answered.  Nothing makes the token endpoint or the
\* identity endpoint answer: a request to them has no timeout (no timeout
\* option in the calls, none in axios's defaults), so the handler's next step
\* is the provider's to take.
SpecCallbackLive ==
  /\ SpecCallback
  /\ WF_vars(Tick)
  /\ WF_vars(CbStore("p1") \/ CbStoreFail("p1"))
  /\ WF_vars(GvStore("p1") \/ GvStoreFail("p1"))

\* One LinkedInExtractor, whose _makeRequest is called by concurrent callers;
\* requestFn succeeds or throws any of ApiErrors.
NextExtractor ==
  \/ Elapse
  \/ \E p \in Procs :
       \/ MakeRequest(p)
       \/ LimiterWake(p)
       \/ \E result \in {"profile", "posts"} : FnOk(p, result)
       \/ \E error \in ApiErrors : FnFail(p, error)
       \/ RetryWake(p)

SpecExtractor == Init /\ [][NextExtractor]_vars

\* The route of requireAuth and withAccessToken, one request at a time and
\* nothing else: u1 has no record, or the record a callback stored at time 0;
\* the provider may fail.
NextRoute ==
  \/ Tick
  \/ \E header \in {None, "u1"} : UserInfoRoute("p1", header)
  \/ \E data \in Payloads : GvRefreshOk("p1", data)
  \/ GvRefreshFail("p1")
  \/ GvStore("p1")
  \/ \E found \in {"ok", "UserNotFound", "LookupFailed"} : FindUser("p1", found)
  \/ WithAccessTokenFinds("p1")

SpecRoute == InitGate /\ [][NextRoute]_vars

\* The singleton scheduler under any sequence of its methods, with tasks that
\* are functions or not and schedules that are valid or not.
NextScheduler ==
  \/ \E jobName \in JobNames, task \in {"function", "undefined"},
        schedule \in Schedules, scheduled \in BOOLEAN :
       StartScheduler(jobName, task, schedule, scheduled)
  \/ \E jobName \in JobNames : StopScheduler(jobName)
  \/ StopAllSchedulers
  \/ GetSchedulerStatus

SpecScheduler == Init /\ [][NextScheduler]_vars

\* ---------------------------------------------------------------- claims
\* The record of subject u, NoDoc when there is none.
Rec(u) == findOne(store, u)

\* In this step process p calls getValidAccessToken(u): the call is answered in
\* the step, or leaves p waiting for the refresh it requested.
GvCalled(p, u) ==
  /\ proc[p].pc = "idle"
  /\ \/ proc'[p].op = "gv" /\ proc'[p].user = u
     \/ last'.op = "gv" /\ last'.p = p /\ last'.user = u

\* In this step the update of the refresh that getValidAccessToken on p
\* requested reaches the database, and the call returns.
GvStored(p) == proc[p].pc = "gv_store" /\ proc'[p].pc = "idle"

\* The results that tell the caller to authorize again.
ReauthorizationRequired == {"NoRefreshToken", "BothExpired"}

\* AccessExpired-RefreshValid
RefreshValid(doc, t) ==
  /\ doc # NoDoc
  /\ doc.expires_at <= t
  /\ doc.refresh_token # None
  /\ doc.refresh_expires_at = NoDate \/ doc.refresh_expires_at > t

\* BothExpired
BothExpired(doc, t) ==
  /\ doc # NoDoc
  /\ doc.expires_at <= t
  /\ doc.refresh_token = None \/ (doc.refresh_expires_at # NoDate /\ doc.refresh_expires_at <= t)

C2_RefreshOnce ==
  [][\A p \in Procs :
       /\ \A u \in Users :
            (GvCalled(p, u) /\ RefreshValid(Rec(u), now))
              => /\ proc'[p].pc = "gv_refresh"
                 /\ proc'[p].calls = 1
                 /\ store' = store
       /\ (proc[p].pc = "gv_refresh" /\ proc'[p].pc # "idle") => proc'[p].calls = 1
       /\ GvStored(p)
            => /\ last'.res = "ok"
               /\ last'.calls = 1
               /\ last'.ret = proc[p].data.access_token
               /\ findOne(store', proc[p].user).expires_at > proc[p].doc.expires_at]_vars

\* C2 witness: a call that sent one refresh request has returned the access
\* token of the response, which is stored with an expiry in the future.
C2_Witness ==
  /\ last.op = "gv" /\ last.res = "ok" /\ last.calls = 1
  /\ Rec(last.user).access_token = last.ret
  /\ Rec(last.user).expires_at > now

\* C3: a getValidAccessToken call for a record that is expired and has no refresh
\* token, or an expired one, fails with a result that demands re-authorization,
\* sends no request and leaves the collection as it was; and no refresh request
\* is ever sent for a record without a refresh token, by a call or by a sweep.
C3_ReauthorizationRequired ==
  [][\A p \in Procs :
       /\ \A u \in Users :
            (GvCalled(p, u) /\ BothExpired(Rec(u), now))
              => /\ proc'[p].pc = "idle"
                 /\ last'.res \in ReauthorizationRequired
                 /\ last'.calls = 0
                 /\ store' = store
       /\ \A u \in Users :
            (GvCalled(p, u) /\ proc'[p].pc = "gv_refresh") => Rec(u).refresh_token # None
       /\ proc'[p].pc = "sw_refresh"
            => proc'[p].list[proc'[p].i].refresh_token # None]_vars

\* C3 witness: a call has failed for a record whose refresh token is present
\* and expired.
C3_Witness ==
  /\ last.op = "gv" /\ last.res = "BothExpired" /\ last.calls = 0
  /\ Rec(last.user).refresh_token # None
  /\ Rec(last.user).refresh_expires_at <= now

\* C4: when the refresh that getValidAccessToken requested fails, the call fails
\* with the refresh failure and the collection is as it was.
C4_RefreshFailureWritesNothing ==
  [][\A p \in Procs :
       (proc[p].pc = "gv_refresh" /\ proc'[p].pc = "idle")
         => /\ last'.p = p
            /\ last'.res = "RefreshFailed"
            /\ last'.ret = None
            /\ store' = store
            /\ Rec(proc[p].user) = proc[p].doc]_vars

\* C4 witness: a call has failed with the refresh failure and the stale record
\* is still stored.
C4_Witness ==
  /\ last.op = "gv" /\ last.res = "RefreshFailed" /\ last.calls = 1
  /\ RefreshValid(Rec(last.user), now)

\* C5: a getValidAccessToken call for a subject without a record fails with the
\* no-token result, sends no request and creates no record.
C5_NoToken ==
  [][\A p \in Procs, u \in Users :
       (GvCalled(p, u) /\ Rec(u) = NoDoc)
         => /\ proc'[p].pc = "idle"
            /\ last'.res = "NoToken"
            /\ last'.calls = 0
            /\ store' = store]_vars

\* C5 witness: a call has failed with the no-token result and there is no record.
C5_Witness ==
  /\ last.op = "gv" /\ last.res = "NoToken" /\ last.calls = 0
  /\ Rec(last.user) = NoDoc

\* In this step the callback on p passes its checks and requests the exchange of
\* the code.
CbProceeds(p) == proc[p].pc = "idle" /\ proc'[p].pc = "cb_exchange"

\* C6: the callback exchanges the code only if the session holds an expected
\* state and the state received equals it.
C6_StateValidated ==
  [][\A p \in Procs :
       CbProceeds(p) => (sess.oauthState # NoState /\ proc'[p].state = sess.oauthState)]_vars

\* C7: the callback never exchanges a code for a state that an earlier callback
\* of the session has compared and discarded.
C7_StateSingleUse ==
  [][\A p \in Procs : CbProceeds(p) => proc'[p].state \notin sess.consumed]_vars

\* C8: a subject whose tokens were revoked has no record, and no
\* getValidAccessToken call for it succeeds, until its next code exchange has
\* stored tokens.
C8_RevokedStaysRevoked ==
  /\ \A u \in revoked : Rec(u) = NoDoc
  /\ (last.op = "gv" /\ last.user \in revoked) => last.res # "ok"

\* The update of a refresh on p is on its way to the database.
RefreshStoring(p) == proc[p].pc \in {"gv_store", "sw_store"}

\* The record that refresh read: tokenDoc.
Snapshot(p) == IF proc[p].pc = "gv_store" THEN proc[p].doc ELSE proc[p].list[proc[p].i]

\* C9: when the update of a refresh reaches the database, the stored record is
\* the one that refresh alone makes of the record it read, whatever the other
\* refreshes of the subject wrote meanwhile: every token and expiry field is
\* the last writer's.
C9_LastWriterWins ==
  [][\A p \in Procs :
       (RefreshStoring(p) /\ proc'[p] # proc[p])
         => findOne(store', Snapshot(p).user_id)
              = applyUpdate(Snapshot(p), Snapshot(p).user_id, proc[p].data, proc[p].at)]_vars

\* C10: the collection never holds two records of one subject.
C10_OneRecordPerSubject ==
  \A i, j \in 1..Len(store) : store[i].user_id = store[j].user_id => i = j

\* C10 witness: the update of a refresh has replaced the record of the subject
\* while the update of another handler for the same subject is on its way.
C10_Witness ==
  /\ last.op = "gv" /\ last.res = "ok" /\ last.calls = 1
  /\ Len(store) = 1
  /\ \E p \in Procs : proc[p].pc \in {"gv_store", "sw_store", "cb_store"}

\* The subject whose record the refresh on p writes.
RefreshSubject(p) == Snapshot(p).user_id

\* C11: when the update of a successful refresh reaches the database, every
\* token and expiry field of the stored record is the one derived from the
\* refresh response: the access token, the refresh token (none when the
\* response carries none) and both expiries; nothing of the old record stays.
C11_WholeRecordReplaced ==
  [][\A p \in Procs :
       (RefreshStoring(p) /\ proc'[p] # proc[p])
         => LET r == findOne(store', RefreshSubject(p)) IN
              /\ r.access_token = proc[p].data.access_token
              /\ r.refresh_token = proc[p].data.refresh_token
              /\ r.expires_at = proc[p].at + proc[p].data.expires_in
              /\ r.refresh_expires_at = refreshExpiresAt(proc[p].data, proc[p].at)]_vars

\* The counters of the sweep on p after the step: those of its answer when the
\* step ended it, else those it goes on with.
After(p) == IF proc'[p].pc = "idle" THEN last' ELSE proc'[p]

\* In this step the refresh that the sweep on p requested fails.
SwRefreshFailed(p) ==
  /\ proc[p].pc = "sw_refresh"
  /\ proc'[p] # proc[p]
  /\ proc'[p].pc # "sw_store"

\* In this step the sweep on p, under way, returns.
SwReturns(p) == proc[p].op = "sw" /\ proc'[p].pc = "idle" /\ last'.res = "ok"

\* C12: when the refresh of a record fails in a sweep, the collection is as it
\* was, the record is counted as failed with the failure and not as succeeded,
\* and the sweep goes on with the records after it: it requests the refresh of
\* a later record, or returns having counted every record of its selection.
\* A sweep that returns has counted each selected record once, as succeeded or
\* as failed.
C12_FailureIsolated ==
  [][\A p \in Procs :
       /\ SwRefreshFailed(p)
            => /\ store' = store
               /\ After(p).success = proc[p].success
               /\ After(p).failed >= proc[p].failed + 1
               /\ After(p).errors[proc[p].failed + 1]
                    = <<proc[p].list[proc[p].i].user_id, "Token refresh failed">>
               /\ \/ proc'[p].pc = "sw_refresh" /\ proc'[p].i > proc[p].i
                  \/ SwReturns(p)
               /\ \A k \in (proc[p].i + 1)..Len(proc[p].list) :
                    ~isRefreshTokenExpired(proc[p].list[k], now)
                      => proc'[p].pc = "sw_refresh" /\ proc'[p].i <= k
       /\ SwReturns(p) => last'.success + last'.failed = Len(proc[p].list)]_vars

\* C12 witness: a sweep over the records of two subjects has returned
\* succeeded 1, failed 1: the refresh of the first record failed, that of the
\* second was stored afterwards, and the first record still needs refresh.
C12_Witness ==
  /\ last.op = "sw" /\ last.res = "ok"
  /\ last.success = 1 /\ last.failed = 1
  /\ last.errors = << <<store[1].user_id, "Token refresh failed">> >>
  /\ Len(store) = 2
  /\ NeedsRefreshQuery(store[1], now)
  /\ ~NeedsRefreshQuery(store[2], now)

\* C13: a sweep never raises: whatever fails during it, its answer is the
\* aggregate result.
C13_SweepNeverRaises == last.op = "sw" => last.res = "ok"

\* In this step process p calls refreshExpiringTokens and the selecting query
\* answers.
SwCalled(p) ==
  /\ proc[p].pc = "idle"
  /\ \/ proc'[p].op = "sw"
     \/ last'.op = "sw" /\ last'.p = p /\ last'.res = "ok"

\* The record d holds a refresh token and its access token expires no later
\* than 24 hours after t.
InWindow(d, t) == d.refresh_token \in RefreshTokens /\ d.expires_at - t <= OneDay

\* The positions of the collection's records that are in the window now.
Expiring == {i \in 1..Len(store) : InWindow(store[i], now)}

AllRefreshed == last.op = "sw" /\ last.res = "ok" /\ last.failed = 0

C16_RefreshBeforeExpiry ==
  [][\A p \in Procs :
       /\ \A u \in Users :
            ( /\ GvCalled(p, u)
              /\ Rec(u) # NoDoc
              /\ isAccessTokenExpired(Rec(u), now) \/ needsRefresh(Rec(u), now)
              /\ Rec(u).refresh_token # None
              /\ ~isRefreshTokenExpired(Rec(u), now) )
              => proc'[p].pc = "gv_refresh" /\ proc'[p].calls = 1
       /\ GvStored(p)
            => findOne(store', proc[p].user).access_token = proc[p].data.access_token]_vars

\* In this step the update that storeTokens sent for process p reaches the
\* database and is applied.
Stored(p) ==
  \/ /\ proc[p].pc \in {"cb_store", "gv_store"}
     /\ proc'[p].pc = "idle"
     /\ last'.res \in {"success", "ok"}
  \/ /\ proc[p].pc = "sw_store"
     /\ proc'[p] # proc[p]
     /\ After(p).success = proc[p].success + 1

\* The subject storeTokens was called for.
StoreSubject(p) == IF proc[p].pc = "sw_store" THEN RefreshSubject(p) ELSE proc[p].user

\* C17: a read of the record right after storeTokens(subject, payload) has
\* stored it returns the payload's access token and an accessExpiresAt equal to
\* the time of the storeTokens call plus the payload's expires_in.
C17_RoundTrip ==
  [][\A p \in Procs :
       Stored(p)
         => /\ findOne(store', StoreSubject(p)).access_token = proc[p].data.access_token
            /\ findOne(store', StoreSubject(p)).expires_at
                 = proc[p].at + proc[p].data.expires_in]_vars

\* In this step the logout on p revokes the tokens of subject u and answers.
Revoked(p, u) ==
  /\ proc[p].pc = "idle"
  /\ last'.op = "lo" /\ last'.p = p /\ last'.user = u

\* C18: revoking the tokens of a subject succeeds and leaves no record of the
\* subject, whether or not there was one; revoking again right after does the
\* same and leaves the collection as the first left it.
C18_RevokeIdempotent ==
  [][\A p \in Procs, u \in Users :
       Revoked(p, u)
         => /\ last'.res = "ok"
            /\ findOne(store', u) = NoDoc
            /\ Rec(u) = NoDoc => store' = store
            /\ (last.op = "lo" /\ last.res = "ok" /\ last.user = u) => store' = store]_vars

\* C18 witness: the tokens of a subject have been revoked and it has no record:
\* the state in which a second revoke is called, and the one it leaves.
C18_Witness ==
  /\ last.op = "lo" /\ last.res = "ok"
  /\ last.user \in revoked
  /\ Rec(last.user) = NoDoc

\* The results with which getValidAccessToken throws.
Failures ==
  {"NoToken", "NoRefreshToken", "BothExpired", "RefreshFailed", "RefreshDenied", "StoreFailed"}

\* C19: hasValidToken always returns a boolean: true when the
\* getValidAccessToken call it makes succeeds, the subject then having a
\* record, and false when that call fails, whatever the failure.
C19_HasValidTokenTotal ==
  last.op = "hv"
    => /\ last.ret \in {"true", "false"}
       /\ last.res \in Failures \cup {"ok"}
       /\ last.ret = "true" <=> last.res = "ok"
       /\ last.ret = "false" <=> last.res \in Failures
       /\ last.ret = "true" => Rec(last.user) # NoDoc

\* C19 witness: hasValidToken has returned false for a call whose refresh
\* failed.
C19_Witness ==
  /\ last.op = "hv" /\ last.ret = "false"
  /\ last.res = "RefreshFailed" /\ last.calls = 1

\* C20: what requireAuth or withAccessToken sends to a caller whose refresh
\* failed is what it sends to a caller whose subject has no record.
C20_RejectionsAlike ==
  (last.op \in {"ra", "wa"} /\ last.res \in {"RefreshFailed", "RefreshDenied"})
    => last.ret = answer([Idle EXCEPT !.op = last.op, !.res = "NoToken"])

\* C21: requireAuth calls next() only for a request that supplied a subject and
\* for which hasValidToken returned true, the subject then having a record; it
\* does so as the last thing, when User.findById answered; every other request
\* is answered with a 401 or a 500 and never reaches the handler.
C21_RequireAuthGate ==
  [][\A p \in Procs :
       (last'.op = "ra" /\ last'.p = p)
         => /\ last'.ret[1] \in {"next", "401", "500"}
            /\ last'.ret[1] = "next"
                 => /\ proc[p].pc = "find_user" /\ proc[p].res = "ok"
                    /\ hasValidToken(proc[p].res) = "true"
                    /\ last'.user # None /\ Rec(last'.user) # NoDoc
            /\ (last'.user = None \/ last'.res \in Failures)
                 => last'.ret[1] = "401"]_vars

\* C21 witness: requireAuth has called next() for a subject whose access token
\* it had to refresh.
C21_Witness ==
  last.op = "ra" /\ last.ret = <<"next">> /\ last.calls = 1 /\ last.user = "u1"

\* C22: optionalAuth always calls next(), whatever the request and whatever
\* fails, and attaches an identity, the subject's, only when hasValidToken
\* returned true for the subject.
C22_OptionalAuthNeverRejects ==
  [][\A p \in Procs :
       (last'.op = "oa" /\ last'.p = p)
         => /\ last'.ret[1] = "next"
            /\ last'.ret[2] # None
                 => /\ proc[p].pc = "find_user" /\ hasValidToken(proc[p].res) = "true"
                    /\ last'.ret[2] = last'.user /\ last'.user # None
            /\ (last'.user = None \/ last'.res \in Failures \cup {"UserNotFound", "LookupFailed"})
                 => last'.ret = <<"next", None>>]_vars

\* C22 witness: optionalAuth has let a request through, with no identity, whose
\* subject's refresh failed.
C22_Witness ==
  last.op = "oa" /\ last.ret = <<"next", None>> /\ last.res = "RefreshFailed"

\* C23: a callback that carries an error parameter is answered in the same
\* step with a denial: no request is sent to the token endpoint, no identity is
\* fetched, nothing is written to the store or to the session, and the answer
\* says userCancelled exactly when the error is user_cancelled_authorize.
C23_DenialIsClean ==
  [][\A p \in Procs, code \in {None, "code"}, state \in 0..MaxNonce,
        error \in {"user_cancelled_authorize", "access_denied"} :
       Callback(p, code, state, error)
         => /\ last'.op = "cb" /\ last'.p = p /\ last'.res = "denied"
            /\ last'.calls = 0 /\ proc'[p] = Idle
            /\ store' = store /\ sess' = sess
            /\ last'.ret = "userCancelled" <=> error = "user_cancelled_authorize"]_vars

\* C23 witness: a callback has been denied, not by the member's cancellation,
\* while the session held the state of a pending authorization.
C23_Witness ==
  /\ last.op = "cb" /\ last.res = "denied" /\ last.ret = None
  /\ sess.oauthState # NoState

\* C24: the callback goes through the state validation, the code exchange, the
\* identity fetch with the user's lookup, the token storage and the session in
\* this order; a missing code or state is rejected before any request is sent;
\* the store and the session's identity change in the step that answers
\* success and in no other step of the callback, so a callback that fails
\* writes no record and establishes no identity.
C24_CallbackOrder ==
  [][\A p \in Procs :
       /\ (proc'[p].pc = "cb_exchange" /\ proc[p].pc # "cb_exchange") => proc[p].pc = "idle"
       /\ (proc'[p].pc = "cb_userinfo" /\ proc[p].pc # "cb_userinfo")
            => proc[p].pc = "cb_exchange"
       /\ (proc'[p].pc = "cb_store" /\ proc[p].pc # "cb_store") => proc[p].pc = "cb_userinfo"
       /\ (last'.op = "cb" /\ last'.p = p /\ last'.res = "success")
            => /\ proc[p].pc = "cb_store"
               /\ findOne(store', last'.user) # NoDoc
               /\ sess'.userId = last'.user
       /\ (last'.op = "cb" /\ last'.p = p /\ last'.res \in {"missing_code", "missing_state"})
            => proc[p].pc = "idle" /\ last'.calls = 0
       /\ (proc[p].op = "cb" /\ proc'[p] # proc[p] /\ last'.res # "success")
            => store' = store /\ sess'.userId = sess.userId
       /\ (last'.op = "cb" /\ last'.p = p /\ last'.res # "success")
            => store' = store /\ sess'.userId = sess.userId]_vars

\* C24 witness: a callback has failed at the token storage, its exchange and
\* its identity fetch done, and the session holds no identity.
C24_Witness ==
  /\ last.op = "cb" /\ last.res = "callback_failed" /\ last.user = "u1"
  /\ last.calls = 1 /\ sess.userId = None /\ store = <<>>

\* C25: an invocation of exchangeCodeForToken or refreshAccessToken sends one
\* request to the token endpoint: the count of a handler's requests grows by
\* one in the step that invokes the client and in no other step, and the
\* response or the failure of that request ends the invocation.
C25_OneRequestPerInvocation ==
  [][\A p \in Procs :
       /\ (proc'[p] # Idle /\ proc'[p].calls # proc[p].calls)
            => /\ proc'[p].calls = proc[p].calls + 1
               /\ proc[p].pc \notin {"cb_exchange", "gv_refresh"}
               /\ proc'[p].pc \in {"cb_exchange", "gv_refresh"}
       /\ (proc[p].pc \in {"cb_exchange", "gv_refresh"} /\ proc'[p] # proc[p])
            => /\ proc[p].calls = 1
               /\ proc'[p].pc \notin {"cb_exchange", "gv_refresh"}
               /\ proc'[p] = Idle => last'.calls = 1]_vars

\* C25 witness: a callback whose code exchange failed on a transport failure
\* has been answered, one request sent.
C25_Witness ==
  /\ last.op = "cb" /\ last.res = "callback_failed" /\ last.calls = 1
  /\ last.error = tokenError("Token exchange failed",
                             [kind |-> "transport", error |-> None,
                              error_description |-> None, message |-> "socket hang up"])

\* C26: the Error the token endpoint's client throws tells a provider error
\* from a transport failure: TokenExchangeFailed with the provider's code and
\* description for the first, TransportError for the second.
C26_FailuresDistinct ==
  [][\A p \in Procs, f \in TokenFailures :
       (CbExchangeThrows(p, f) \/ GvRefreshThrows(p, f))
         => IF f.kind = "response"
            THEN /\ last'.error.name = "TokenExchangeFailed"
                 /\ \E k \in 1..Len(last'.error.message) : last'.error.message[k] = f.error
                 /\ f.error_description # None
                      => \E k \in 1..Len(last'.error.message) :
                           last'.error.message[k] = f.error_description
            ELSE last'.error.name = "TransportError"]_vars

\* C27: a request to the token endpoint ends: the handler that waits for the
\* exchange or the refresh is answered in the end, whatever the provider does.
C27_ExchangeEnds ==
  \A p \in Procs :
    (proc[p].pc \in {"cb_exchange", "gv_refresh"})
      ~> (proc[p].pc \notin {"cb_exchange", "gv_refresh"})

\* The texts a provider error puts in an Error's message.
ProviderText(msg) ==
  \E f \in ProviderErrors, prefix \in {"Token exchange failed", "Token refresh failed"} :
    msg = tokenError(prefix, f).message

\* C28: in the production posture the response of callback and of refresh
\* carries no text of the provider's error.
C28_NoProviderTextInProduction ==
  (posture = "production" /\ last.op \in {"cb", "rf"}) => ~ProviderText(last.details)

\* C29: the requests one extractor sends to the API within any window of
\* windowMs are at most maxRequests: so are those of the window that ends at
\* each request sent.
C29_RequestsWithinLimit ==
  \A k \in 1..Len(sent) :
    Cardinality({j \in 1..Len(sent) : sent[k] - sent[j] < windowMs /\ sent[j] <= sent[k]})
      <= maxRequests

\* C30: execute invokes requestFn at most maxRetries + 1 times; the first
\* success ends it, with the result of that invocation; a failure ends it on
\* the last attempt, or earlier when the error is not retryable, and then it
\* throws the error of the invocation that failed last.
C30_RetryBounded ==
  [][\A p \in Procs :
       /\ proc'[p].invoked <= maxRetries + 1
       /\ proc'[p].pc \in {"rt_fn", "rt_wait"} => proc'[p].invoked = proc'[p].attempt + 1
       /\ \A result \in {"profile", "posts"} :
            FnOk(p, result)
              => /\ last'.p = p /\ last'.res = "ok" /\ last'.ret = result
                 /\ last'.invoked = proc[p].invoked /\ proc'[p] = Idle
       /\ \A error \in ApiErrors :
            FnFail(p, error)
              => /\ proc'[p] = Idle
                      => /\ last'.p = p /\ last'.res = "failed"
                         /\ last'.lastError = error
                         /\ last'.invoked = proc[p].invoked
                 /\ proc[p].invoked = maxRetries + 1 => proc'[p] = Idle
                 /\ proc'[p] # Idle => proc'[p].invoked = proc[p].invoked]_vars

\* C30 witness: execute has thrown the error of its last invocation, after
\* maxRetries + 1 invocations, the last of which was answered with a 503.
C30_Witness ==
  /\ last.op = "mr" /\ last.res = "failed" /\ last.invoked = maxRetries + 1
  /\ last.lastError.status = 503

\* The errors the retry logic is to take for recoverable: a network error of a
\* retryable code, by its code or by its message, and a response of status 500
\* or more.
Recoverable(error) ==
  \/ error.code \in {"ECONNRESET", "ETIMEDOUT", "ENOTFOUND"}
  \/ error.message = "read ECONNRESET"
  \/ error.status >= 500

\* C31: execute retries recoverable errors only: an error that is not
\* recoverable is thrown in the step in which requestFn threw it, whatever the
\* attempt, and requestFn is not invoked again; an error after which execute
\* waits for a retry is recoverable.
C31_OnlyRecoverableRetried ==
  [][\A p \in Procs, error \in ApiErrors :
       FnFail(p, error)
         => /\ ~Recoverable(error)
                 => /\ proc'[p] = Idle /\ last'.p = p /\ last'.res = "failed"
                    /\ last'.lastError = error /\ last'.invoked = proc[p].invoked
                    /\ sent' = sent
            /\ proc'[p].pc = "rt_wait" => Recoverable(error)]_vars

\* C31 witness: execute has thrown a 404 on its second invocation, the first
\* having failed with an error it retried.
C31_Witness ==
  /\ last.op = "mr" /\ last.res = "failed" /\ last.lastError.status = 404
  /\ last.invoked = 2

RECURSIVE Pow(_, _)
\* b to the power e
Pow(b, e) == IF e = 0 THEN 1 ELSE b * Pow(b, e - 1)

SwLoops(p) ==
  \/ SwCalled(p)
  \/ SwRefreshFailed(p)
  \/ proc[p].pc = "sw_store" /\ proc'[p] # proc[p]

\* The selection of the sweep whose loop runs in this step.
SwList(p) == IF proc[p].pc = "idle" THEN findTokensNeedingRefresh(store, now) ELSE proc[p].list

\* The records the loop passes in this step without waiting: those from From
\* up to, not including, To.
SwFrom(p) == IF proc[p].pc = "idle" THEN 1 ELSE proc[p].i + 1

SwTo(p) == IF proc'[p].pc = "sw_refresh" THEN proc'[p].i ELSE Len(SwList(p)) + 1

\* C34: a selected record whose refresh token is expired when the loop
\* reaches it is counted as failed, with the entry 'Refresh token expired' of
\* its subject; no request is sent for it and its stored record stays as it
\* is; the loop goes on, to the next record whose refresh token is not expired
\* or to the return.
C34_ExpiredRefreshSkipped ==
  [][\A p \in Procs :
       SwLoops(p)
         => /\ SwFrom(p) <= SwTo(p)
            /\ \A k \in SwFrom(p)..(SwTo(p) - 1) :
                 /\ isRefreshTokenExpired(SwList(p)[k], now)
                 /\ After(p).errors[Len(After(p).errors) - (SwTo(p) - 1 - k)]
                      = <<SwList(p)[k].user_id, "Refresh token expired">>
                 /\ findOne(store', SwList(p)[k].user_id) = findOne(store, SwList(p)[k].user_id)
            /\ After(p).failed - proc[p].failed - (SwTo(p) - SwFrom(p))
                 = IF proc[p].pc \in {"sw_refresh", "sw_store"}
                      /\ After(p).success = proc[p].success THEN 1 ELSE 0
            /\ After(p).calls - proc[p].calls = IF proc'[p].pc = "sw_refresh" THEN 1 ELSE 0
            /\ proc'[p].pc = "sw_refresh"
                 => ~isRefreshTokenExpired(proc'[p].list[proc'[p].i], now)
            /\ proc'[p].pc # "sw_refresh" => SwReturns(p) \/ proc[p].pc = "idle"]_vars

\* C34 witness: a sweep has returned that passed over the record of u1, whose
\* refresh token was expired, and went on to refresh the record of u2.
C34_Witness ==
  /\ last.op = "sw" /\ last.res = "ok"
  /\ last.errors = << <<"u1", "Refresh token expired">> >>
  /\ last.success = 1 /\ last.calls = 1
  /\ Rec("u1").refresh_expires_at # NoDate /\ Rec("u1").refresh_expires_at <= now

\* The counts st account for the first n records of the selection L, each
\* once: as many successes and failures as records, one entry per failure, and
\* the entries name different subjects of those records, in their order.
Accounted(st, L, n) ==
  /\ st.success + st.failed = n
  /\ Len(st.errors) = st.failed
  /\ \A k \in 1..Len(st.errors) :
       \E j \in 1..n : /\ st.errors[k][1] = L[j].user_id
                        /\ j >= k
  /\ \A k, m \in 1..Len(st.errors) : k < m => st.errors[k][1] # st.errors[m][1]

\* C37: a sweep that returns its result has counted every record of its
\* selection once, as succeeded or as failed, with one entry in errors for
\* each failed record, naming its subject; while it waits for the refresh or
\* the update of a record it has so counted the records before that one.
C37_SweepAccounts ==
  [][\A p \in Procs :
       /\ SwReturns(p) => Accounted(last', SwList(p), Len(SwList(p)))
       /\ (SwCalled(p) /\ proc'[p].pc = "idle")
            => Accounted(last', SwList(p), Len(SwList(p)))
       /\ proc'[p].pc \in {"sw_refresh", "sw_store"}
            => Accounted(proc'[p], proc'[p].list, proc'[p].i - 1)]_vars

\* C37 witness: a sweep has returned that selected two records and counted
\* both as failed, the first for its expired refresh token, the second for the
\* update that the database refused.
C37_Witness ==
  /\ last.op = "sw" /\ last.res = "ok" /\ last.success = 0 /\ last.failed = 2
  /\ last.errors = << <<"u1", "Refresh token expired">>, <<"u2", "Store failed">> >>

\* C35: the record that storeTokens has stored holds the refresh expiry of the
\* payload: the time of the call plus refresh_token_expires_in when the payload
\* supplies one, 0 included, and no expiry only when it supplies none.
C35_RefreshExpiryFromPayload ==
  [][\A p \in Procs :
       Stored(p)
         => findOne(store', StoreSubject(p)).refresh_expires_at
              = IF proc[p].data.refresh_token_expires_in = NoSeconds
                THEN NoDate
                ELSE proc[p].at + proc[p].data.refresh_token_expires_in]_vars

\* C36, as stated: on the route of requireAuth and withAccessToken one request
\* sends at most one request to the token endpoint, and when requireAuth
\* refreshed, withAccessToken returns the token that refresh stored, in the
\* step in which it reads the record.
C36_OneRefreshPerRequest ==
  [][\A p \in Procs :
       /\ proc'[p].calls <= 1
       /\ (proc[p].pc = "wa_find" /\ proc[p].first = 1 /\ proc'[p] # proc[p])
            => /\ proc'[p] = Idle
               /\ last'.ret = <<"next", proc[p].data.access_token>>
               /\ last'.calls = 1]_vars

\* C36, amended: the same, provided the access token that requireAuth's
\* refresh stored has not expired when withAccessToken reads the record; a
\* request sends at most two requests to the token endpoint, and two only when
\* that token has expired by then.
C36_OneRefreshWhileTokenLives ==
  [][\A p \in Procs :
       /\ proc'[p].calls <= 2
       /\ (proc[p].pc = "wa_find" /\ proc[p].first = 1 /\ proc'[p] # proc[p]
            /\ now < proc[p].at + proc[p].data.expires_in)
            => /\ proc'[p] = Idle
               /\ last'.ret = <<"next", proc[p].data.access_token>>
               /\ last'.calls = 1
       /\ (proc[p].chained /\ proc'[p].calls = 2 /\ proc[p].calls = 1)
            => /\ proc[p].pc = "wa_find"
               /\ now >= proc[p].at + proc[p].data.expires_in]_vars

\* C36 witness: the route has passed a request on with the token that
\* requireAuth's refresh stored; withAccessToken sent no request.
C36_Witness ==
  /\ last.op = "wa" /\ last.chained /\ last.first = 1 /\ last.calls = 1
  /\ last.ret = <<"next", Rec("u1").access_token>>
  /\ now < Rec("u1").expires_at

\* C38: once authorize has been called twice in a session, a callback passes
\* the state validation only with the state generated last.
C38_OnlyLatestStatePasses ==
  [][\A p \in Procs :
       (CbProceeds(p) /\ nonces >= 2) => proc'[p].state = generateState(nonces - 1)]_vars

\* The step is a call of the method, for the job name, that returned.
Called(method, jobName) == last'.op = method /\ last'.user = jobName

\* C33: after any sequence of startScheduler, stopScheduler and
\* stopAllSchedulers no job name has more than one cron job whose timer runs,
\* and a successful startScheduler under a name that has an entry stops that
\* entry's cron job and creates one new cron job, the only one left running
\* under the name.
C33_OneActiveJobPerName ==
  [][/\ \A n \in JobNames : Cardinality(Active(cron', n)) <= 1
     /\ \A n \in JobNames :
          (Called("startScheduler", n) /\ last'.res = "ok" /\ has(scheduler, n))
          => /\ cron'[scheduler.jobs[n].cronJob].status = "stopped"
             /\ Len(cron') = Len(cron) + 1
             /\ scheduler'.jobs[n].cronJob = Len(cron')
             /\ Active(cron', n) \subseteq {Len(cron')}]_vars

\* A job was started again under its name: the first cron job of the name is
\* stopped and the second, the one registered, runs.
C33_Witness ==
  /\ last.op = "startScheduler" /\ last.res = "ok"
  /\ \E n \in JobNames :
       /\ last.user = n
       /\ Len(cron) = 2
       /\ cron[1].name = n /\ cron[1].status = "stopped"
       /\ cron[2].name = n /\ cron[2].status = "scheduled"
       /\ scheduler.jobs[n].cronJob = 2

\* C39: a startScheduler call that returns success false leaves the registry,
\* the flag and the cron jobs as they were.
C39_FailedStartChangesNothing ==
  [][(last'.op = "startScheduler" /\ last'.res = "failed")
     => scheduler' = scheduler /\ cron' = cron]_vars

\* C40: isRunning is true exactly when jobs has an entry, and so is running
\* against jobCount in what getSchedulerStatus returns; stopScheduler for a name
\* without an entry returns success false and changes nothing, and
\* stopAllSchedulers leaves no entry and no cron job of an entry running.
C40_RunningIffJobs ==
  [][/\ scheduler.isRunning <=> size(scheduler) > 0
     /\ scheduler'.isRunning <=> size(scheduler') > 0
     /\ last'.op = "getSchedulerStatus"
        => (last'.ret.running <=> last'.ret.jobCount > 0)
           /\ last'.ret.jobCount = size(scheduler)
     /\ \A n \in JobNames :
          (Called("stopScheduler", n) /\ ~has(scheduler, n))
          => last'.res = "failed" /\ scheduler' = scheduler /\ cron' = cron
     /\ last'.op = "stopAllSchedulers"
        => /\ last'.res = "ok"
           /\ size(scheduler') = 0
           /\ \A n \in JobNames : has(scheduler, n)
                => cron'[scheduler.jobs[n].cronJob].status = "stopped"]_vars

\* One of two jobs was stopped: the other has its entry and the flag is set.
C40_Witness ==
  /\ last.op = "stopScheduler" /\ last.res = "ok"
  /\ size(scheduler) = 1
  /\ scheduler.isRunning
  /\ Len(cron) >= 2

====
